---------------------------- MODULE Spec2Model ----------------------------
(***************************************************************************)
(* Model of phase4_jacobian_controller.py: the velocity-resolved IK        *)
(* control loop of main() (resolve handles, start the simulation, the      *)
(* timed loop with Jacobian caching, the finally-block cleanup) and the    *)
(* pure numeric helpers it uses.                                           *)
(*                                                                         *)
(* Units.  Joint angles and joint deltas are integers in units of EPS      *)
(* (1e-4 rad), so EPS = 1 and MAX_DQ = 0.05 rad = 500.  Simulated time is  *)
(* counted in simulation steps of DT = 0.05 s, so DURATION = 8.0 s = 160.  *)
(*                                                                         *)
(* Real arithmetic.  The limiter takes a square root, so its values are    *)
(* kept exactly as signed square roots of rationals: the record            *)
(* [s, n, d] stands for the real number s * sqrt(n / d) with s in          *)
(* {-1, 0, 1}, n/d a fraction in lowest terms.  Products, quotients,       *)
(* comparisons and the norm of a vector are exact on this form.  The       *)
(* solver's values (solve_3x3, the damped-least-squares solve) are kept as *)
(* rationals with a decimal exponent, [m, d, e] for (m / d) * 10^(-e), so  *)
(* that determinants around the threshold 1e-10 are exact.  Floating point *)
(* rounding is not modelled.                                               *)
(***************************************************************************)
EXTENDS Integers, Sequences, FiniteSets, TLC

\* ------------------------------------------------------------------------
\* Program constants (main(), "user-tweakable settings")
\* ------------------------------------------------------------------------
NJ == 7
DURATION == 160
EPS == 1
MAX_DQ == 500
JACOBIAN_UPDATE_PERIOD == 5
DRAIN_STEPS == 5

\* ------------------------------------------------------------------------
\* Bounds of the model
\* ------------------------------------------------------------------------
\* Largest magnitude of a raw joint delta handed to the limiter on its own.
MaxRaw == 3
\* Largest cap maxDq handed to the limiter on its own.
MaxCap == 2

Joints == 1..NJ

\* ------------------------------------------------------------------------
\* Exact reals of the form s * sqrt(n/d)
\* ------------------------------------------------------------------------
Sgn(k) == IF k > 0 THEN 1 ELSE IF k < 0 THEN -1 ELSE 0

RECURSIVE Gcd(_, _)
Gcd(a, b) == IF b = 0 THEN a ELSE Gcd(b, a % b)

\* The real s * sqrt(n/d), in lowest terms (zero has the one form 0*sqrt(0/1)).
Root(s, n, d) ==
    IF s = 0 \/ n = 0
    THEN [s |-> 0, n |-> 0, d |-> 1]
    ELSE LET g == Gcd(n, d) IN [s |-> s, n |-> n \div g, d |-> d \div g]

\* A Python number that is an integer multiple of the unit.
Num(k) == Root(Sgn(k), k * k, 1)

RNeg(x) == [x EXCEPT !.s = 0 - x.s]

RAbs(x) == [x EXCEPT !.s = IF x.s = 0 THEN 0 ELSE 1]

\* x * y, reducing across the fractions before multiplying.
RMul(x, y) ==
    IF x.s = 0 \/ y.s = 0
    THEN Root(0, 0, 1)
    ELSE LET g1 == Gcd(x.n, y.d)
             g2 == Gcd(y.n, x.d)
         IN  Root(x.s * y.s,
                  (x.n \div g1) * (y.n \div g2),
                  (x.d \div g2) * (y.d \div g1))

\* x / y for y # 0.
RDiv(x, y) == RMul(x, [s |-> y.s, n |-> y.d, d |-> y.n])

\* t |-> sgn(t) * t^2 is strictly increasing, so x <= y compares the signed
\* squares s*n/d.
RLeq(x, y) == x.s * x.n * y.d <= y.s * y.n * x.d

RLt(x, y) == x.s * x.n * y.d < y.s * y.n * x.d

\* Python's builtin min(a, b) and max(a, b).
RMin(a, b) == IF RLt(b, a) THEN b ELSE a

RMax(a, b) == IF RLt(a, b) THEN b ELSE a

\* The fraction a + b of two non-negative fractions <<n, d>>.
FracAdd(a, b) ==
    LET g == Gcd(a[2], b[2])
        n == a[1] * (b[2] \div g) + b[1] * (a[2] \div g)
        d == (a[2] \div g) * b[2]
        h == Gcd(n, d)
    IN  <<n \div h, d \div h>>

\* sum(x * x for x in v) over the first k components of v, as a fraction.
RECURSIVE SumSq(_, _)
SumSq(v, k) ==
    IF k = 0 THEN <<0, 1>> ELSE FracAdd(SumSq(v, k - 1), <<v[k].n, v[k].d>>)

\* vec_norm: math.sqrt(sum(x * x for x in v)).
vec_norm(v) ==
    LET ss == SumSq(v, Len(v)) IN Root(IF ss[1] = 0 THEN 0 ELSE 1, ss[1], ss[2])

\* ------------------------------------------------------------------------
\* VelocityLimiter: the per-joint clip and the global norm clamp of main()
\* ------------------------------------------------------------------------
\* dq = [max(-MAX_DQ, min(MAX_DQ, dq_i)) for dq_i in dq]
ClipJoints(dq, maxDq) ==
    [j \in 1..Len(dq) |-> RMax(RNeg(maxDq), RMin(maxDq, dq[j]))]

\* scale = MAX_DQ / dq_norm; dq = [scale * x for x in dq]
Rescale(dq, dq_norm, maxDq) ==
    LET scale == RDiv(maxDq, dq_norm) IN [j \in 1..Len(dq) |-> RMul(scale, dq[j])]

\* A mutant of NormClamp: the global norm clamp is left out.
NormClamp_Skipped(dq, maxDq) == [dq |-> dq, dq_norm |-> vec_norm(dq)]

\* dq_norm = vec_norm(dq); if dq_norm > MAX_DQ: rescale and update the norm.
NormClamp(dq, maxDq) ==
    LET dq_norm == vec_norm(dq)
    IN  IF RLt(maxDq, dq_norm)
        THEN LET scaled == Rescale(dq, dq_norm, maxDq)
             IN  [dq |-> scaled, dq_norm |-> vec_norm(scaled)]
        ELSE [dq |-> dq, dq_norm |-> dq_norm]

\* A mutant of Limiter: the norm is clamped first and the joints are clipped
\* afterwards.
Limiter_NormFirst(dq, maxDq) ==
    LET clipped == ClipJoints(NormClamp(dq, maxDq).dq, maxDq)
    IN  [dq |-> clipped, dq_norm |-> vec_norm(clipped)]

\* The limiter as main() applies it: clip each joint, then clamp the norm.
\* The result is the bounded dq and the norm recorded for the statistics.
Limiter(dq, maxDq) == NormClamp(ClipJoints(dq, maxDq), maxDq)


\* ------------------------------------------------------------------------
\* Exact reals of the form (m / d) * 10^(-e)
\* ------------------------------------------------------------------------
\* The solver's numbers span 1e-15 .. 1e5, so they carry a decimal exponent:
\* the record [m, d, e] stands for (m / d) * 10^(-e), with m / d in lowest
\* terms, d > 0 coprime to 10 and m not a multiple of 10 (one form per real).
RECURSIVE Pow10(_)
Pow10(k) == IF k = 0 THEN 1 ELSE 10 * Pow10(k - 1)

\* Factors 2 and 5 of the denominator are moved into the exponent.
RECURSIVE Decimal(_, _, _)
Decimal(m, d, e) ==
    IF d % 10 = 0 THEN Decimal(m, d \div 10, e + 1)
    ELSE IF d % 2 = 0 THEN Decimal(5 * m, d \div 2, e + 1)
    ELSE IF d % 5 = 0 THEN Decimal(2 * m, d \div 5, e + 1)
    ELSE <<m, d, e>>

\* Factors 10 of the numerator are moved into the exponent.
RECURSIVE Strip10(_, _)
Strip10(m, e) == IF m % 10 = 0 THEN Strip10(m \div 10, e - 1) ELSE <<m, e>>

\* The real (m / d) * 10^(-e) for d > 0, in its one form.
Q(m, d, e) ==
    IF m = 0
    THEN [m |-> 0, d |-> 1, e |-> 0]
    ELSE LET g == Gcd(m * Sgn(m), d)
             a == Decimal(m \div g, d \div g, e)
             b == Strip10(a[1], a[3])
         IN  [m |-> b[1], d |-> a[2], e |-> b[2]]

\* A Python number that is an integer.
QInt(k) == Q(k, 1, 0)

QNeg(x) == [x EXCEPT !.m = 0 - x.m]

\* abs(x)
QAbs(x) == [x EXCEPT !.m = x.m * Sgn(x.m)]

\* x * y, reducing across the fractions before multiplying.
QMul(x, y) ==
    IF x.m = 0 \/ y.m = 0
    THEN Q(0, 1, 0)
    ELSE LET g1 == Gcd(x.m * Sgn(x.m), y.d)
             g2 == Gcd(y.m * Sgn(y.m), x.d)
         IN  Q((x.m \div g1) * (y.m \div g2), (x.d \div g2) * (y.d \div g1),
               x.e + y.e)

\* x + y, on the common exponent and the common denominator.
QAdd(x, y) ==
    IF x.m = 0 THEN y
    ELSE IF y.m = 0 THEN x
    ELSE LET e == IF x.e > y.e THEN x.e ELSE y.e
             xm == x.m * Pow10(e - x.e)
             ym == y.m * Pow10(e - y.e)
             g == Gcd(x.d, y.d)
         IN  Q(xm * (y.d \div g) + ym * (x.d \div g), (x.d \div g) * y.d, e)

QSub(x, y) == QAdd(x, QNeg(y))

\* x / y for y # 0.
QDiv(x, y) ==
    IF x.m = 0
    THEN Q(0, 1, 0)
    ELSE LET g1 == Gcd(x.m * Sgn(x.m), y.m * Sgn(y.m))
             g2 == Gcd(x.d, y.d)
         IN  Q(Sgn(y.m) * (x.m \div g1) * (y.d \div g2),
               (x.d \div g2) * ((y.m * Sgn(y.m)) \div g1), x.e - y.e)

\* a * 10^k < b for positive integers a, b and k >= 0; a product beyond 31
\* bits is above every b.
ScaledLt(a, k, b) ==
    IF k > 9 THEN FALSE
    ELSE IF a > 2147483647 \div Pow10(k) THEN FALSE
    ELSE a * Pow10(k) < b

\* a < b * 10^k for positive integers a, b and k >= 0.
LtScaled(a, b, k) ==
    IF k > 9 THEN TRUE
    ELSE IF b > 2147483647 \div Pow10(k) THEN TRUE
    ELSE a < b * Pow10(k)

\* x < y for positive x and y: x.m * y.d * 10^(-x.e) < y.m * x.d * 10^(-y.e).
PosLt(x, y) ==
    IF x.e >= y.e
    THEN LtScaled(x.m * y.d, y.m * x.d, x.e - y.e)
    ELSE ScaledLt(x.m * y.d, y.e - x.e, y.m * x.d)

\* x < y
QLt(x, y) ==
    IF Sgn(x.m) # Sgn(y.m) THEN Sgn(x.m) < Sgn(y.m)
    ELSE IF x.m = 0 THEN FALSE
    ELSE IF x.m > 0 THEN PosLt(x, y)
    ELSE PosLt(QAbs(y), QAbs(x))

\* ------------------------------------------------------------------------
\* Matrix helpers (lists of rows)
\* ------------------------------------------------------------------------
\* result[i][j] += A[i][k] * B[k][j] for the first n values of k, from 0.0
RECURSIVE DotSum(_, _, _, _, _)
DotSum(A, B, i, j, n) ==
    IF n = 0 THEN Q(0, 1, 0)
    ELSE QAdd(DotSum(A, B, i, j, n - 1), QMul(A[i][n], B[n][j]))

\* mat_mult(A, B): A @ B.  Every call of it in main() has cols_A = rows_B.
mat_mult(A, B) ==
    [i \in 1..Len(A) |-> [j \in 1..Len(B[1]) |-> DotSum(A, B, i, j, Len(A[1]))]]

\* mat_transpose(A)
mat_transpose(A) == [i \in 1..Len(A[1]) |-> [j \in 1..Len(A) |-> A[j][i]]]

\* mat_add(A, B)
mat_add(A, B) ==
    [i \in 1..Len(A) |-> [j \in 1..Len(A[1]) |-> QAdd(A[i][j], B[i][j])]]

\* mat_scale(A, scalar)
mat_scale(A, scalar) ==
    [i \in 1..Len(A) |-> [j \in 1..Len(A[1]) |-> QMul(scalar, A[i][j])]]

\* A mutant of mat_eye: the matrix of zeros.
mat_eye_Zeros(n) == [i \in 1..n |-> [j \in 1..n |-> Q(0, 1, 0)]]

\* mat_eye(n)
mat_eye(n) == [i \in 1..n |-> [j \in 1..n |-> IF i = j THEN Q(1, 1, 0) ELSE Q(0, 1, 0)]]

\* ------------------------------------------------------------------------
\* solve_3x3 and the damped-least-squares solve of main()
\* ------------------------------------------------------------------------
\* LAMBDA = 0.1 (LAMBDA is a reserved word here) and STEP_SIZE = 0.002
Lambda == Q(1, 1, 1)

STEP_SIZE == Q(2, 1, 3)

\* The literal 1e-10 of solve_3x3.
SingularTol == Q(1, 1, 10)

\* det = A[0][0] * (A[1][1] * A[2][2] - A[1][2] * A[2][1])
\*     - A[0][1] * (A[1][0] * A[2][2] - A[1][2] * A[2][0])
\*     + A[0][2] * (A[1][0] * A[2][1] - A[1][1] * A[2][0])
Det3(A) ==
    QAdd(QSub(QMul(A[1][1], QSub(QMul(A[2][2], A[3][3]), QMul(A[2][3], A[3][2]))),
              QMul(A[1][2], QSub(QMul(A[2][1], A[3][3]), QMul(A[2][3], A[3][1])))),
         QMul(A[1][3], QSub(QMul(A[2][1], A[3][2]), QMul(A[2][2], A[3][1]))))

\* A mutant of IsSingular: the threshold is 1e-8.
IsSingular_Loose(det) == QLt(QAbs(det), Q(1, 1, 8))

\* A mutant of IsSingular: the determinant is compared without abs().
IsSingular_Signed(det) == QLt(det, SingularTol)

\* if abs(det) < 1e-10: raise ValueError("Matrix is singular")
IsSingular(det) == QLt(QAbs(det), SingularTol)

\* det_x, det_y and det_z of solve_3x3.
DetX(A, b) ==
    QAdd(QSub(QMul(b[1], QSub(QMul(A[2][2], A[3][3]), QMul(A[2][3], A[3][2]))),
              QMul(A[1][2], QSub(QMul(b[2], A[3][3]), QMul(A[2][3], b[3])))),
         QMul(A[1][3], QSub(QMul(b[2], A[3][2]), QMul(A[2][2], b[3]))))

DetY(A, b) ==
    QAdd(QSub(QMul(A[1][1], QSub(QMul(b[2], A[3][3]), QMul(A[2][3], b[3]))),
              QMul(b[1], QSub(QMul(A[2][1], A[3][3]), QMul(A[2][3], A[3][1])))),
         QMul(A[1][3], QSub(QMul(A[2][1], b[3]), QMul(b[2], A[3][1]))))

\* A mutant of DetZ: the last cofactor is taken with A[1][2] for A[1][1].
DetZ_WrongCofactor(A, b) ==
    QAdd(QSub(QMul(A[1][1], QSub(QMul(A[2][2], b[3]), QMul(b[2], A[3][2]))),
              QMul(A[1][2], QSub(QMul(A[2][1], b[3]), QMul(b[2], A[3][1])))),
         QMul(b[1], QSub(QMul(A[2][1], A[3][2]), QMul(A[2][3], A[3][1]))))

DetZ(A, b) ==
    QAdd(QSub(QMul(A[1][1], QSub(QMul(A[2][2], b[3]), QMul(b[2], A[3][2]))),
              QMul(A[1][2], QSub(QMul(A[2][1], b[3]), QMul(b[2], A[3][1])))),
         QMul(b[1], QSub(QMul(A[2][1], A[3][2]), QMul(A[2][2], A[3][1]))))

\* A mutant of Cramer: the first two components are exchanged.
Cramer_Swapped(A, b, det) ==
    <<QDiv(DetY(A, b), det), QDiv(DetX(A, b), det), QDiv(DetZ(A, b), det)>>

\* return [det_x / det, det_y / det, det_z / det]
Cramer(A, b, det) ==
    <<QDiv(DetX(A, b), det), QDiv(DetY(A, b), det), QDiv(DetZ(A, b), det)>>

\* solve_3x3(A, b): the solution, or the ValueError of a singular matrix.
solve_3x3(A, b) ==
    LET det == Det3(A)
    IN  IF IsSingular(det)
        THEN [raised |-> TRUE, x |-> << >>]
        ELSE [raised |-> FALSE, x |-> Cramer(A, b, det)]

\* The solve of a tick: J_T, JJT, I, JJT_damped, dx_solved, dq (flattened).
DampedLeastSquares(Jm, dx, lam) ==
    LET J_T == mat_transpose(Jm)
        JJT == mat_mult(Jm, J_T)
        I == mat_eye(3)
        JJT_damped == mat_add(JJT, mat_scale(I, QMul(lam, lam)))
        dx_solved == solve_3x3(JJT_damped, dx)
    IN  IF dx_solved.raised
        THEN [raised |-> TRUE, dq |-> << >>]
        ELSE LET dqm == mat_mult(J_T, [k \in 1..3 |-> <<dx_solved.x[k]>>])
             IN  [raised |-> FALSE, dq |-> [i \in Joints |-> dqm[i][1]]]

\* ------------------------------------------------------------------------
\* State of main() and of the simulator it drives
\* ------------------------------------------------------------------------
VARIABLES
    pc,              \* position in main()
    joint_handles,   \* number of joint handles resolved so far
    tip_handle,      \* TRUE once the end-effector handle is resolved
    loop_start_time, \* sim.getSimulationTime() sampled before the loop
    step_counter,    \* control ticks started
    q,               \* joint vector sampled at the start of the tick
    p,               \* tip position sampled at the start of the tick
    J,               \* cached Jacobian, JNone before the first estimation
    col,             \* column being probed (the loop variable i, from 1)
    dq,              \* bounded joint delta of the tick
    dq_norms,        \* recorded |dq| samples
    pending,         \* exception in flight inside try/finally
    outcome,         \* how main() returned to its caller
    drained,         \* residual client.step() calls made by the finally block
    simRunning,      \* simulator: the simulation is running
    simTime,         \* simulator: simulated time, in steps
    robotQ,          \* simulator: joint configuration it holds
    plan,            \* simulator: the raw solutions its kinematics lead to
    started,         \* history: sim.startSimulation() returned
    stopInvoked,     \* history: sim.stopSimulation() was called
    stepsInTick,     \* history: client.step() calls made by the current tick
    pertInTick,      \* history: perturbed configurations commanded this tick
    recomputed,      \* history: ticks on which the Jacobian was recomputed
    lastEst,         \* history: Jacobian of the last completed estimation
    solverJ,         \* history: Jacobian handed to the last solve
    firstError,      \* history: the exception that ended the loop
    lim_dq,          \* limiter on its own: raw joint delta
    lim_cap,         \* limiter on its own: maxDq
    lim_out,         \* limiter on its own: result, LimNone before the call
    sol_pc,          \* solve on its own: "idle", "call" or "done"
    sol_J,           \* solve on its own: the 3x7 Jacobian
    sol_dx,          \* solve on its own: the desired Cartesian delta
    sol_lam,         \* solve on its own: the damping lambda
    sol_out,         \* solve on its own: result, SolNone before the call
    s3_pc,           \* solve_3x3 on its own: position in the function
    s3_A,            \* solve_3x3 on its own: the matrix A
    s3_b,            \* solve_3x3 on its own: the right-hand side b
    s3_det,          \* solve_3x3 on its own: det, once computed
    s3_x,            \* solve_3x3 on its own: the returned solution
    summary          \* avg_dq_norm, min_dq_norm, max_dq_norm of the summary

progVars ==
    <<pc, joint_handles, tip_handle, loop_start_time, step_counter, q, p, J,
      col, dq, dq_norms, pending, outcome, drained>>

simVars == <<simRunning, simTime, robotQ, plan>>

histVars ==
    <<started, stopInvoked, stepsInTick, pertInTick, recomputed, lastEst,
      solverJ, firstError>>

limVars == <<lim_dq, lim_cap, lim_out>>

solVars ==
    <<sol_pc, sol_J, sol_dx, sol_lam, sol_out, s3_pc, s3_A, s3_b, s3_det, s3_x>>

vars == <<progVars, simVars, histVars, limVars, solVars, summary>>

\* J = None
JNone == << >>

\* No exception in flight.
NoError == [kind |-> "None", site |-> "None"]

\* main() has not returned yet.
Running == [kind |-> "Running", site |-> "None"]

\* Exceptions a call can end with: an error raised by the remote API (an
\* Exception), or the user's interrupt (KeyboardInterrupt, a BaseException).
ErrorKinds == {"Error", "Interrupt"}

ZeroVec == [j \in Joints |-> 0]

\* ------------------------------------------------------------------------
\* The simulator's side
\* ------------------------------------------------------------------------
\* sim.getObjectPosition(tip_handle, -1): the tip position of a joint
\* configuration.  Any fixed map serves; this one is not linear, so that
\* Jacobians estimated at different configurations differ.
TipPosition(qv) ==
    <<qv[1] * qv[1] + qv[2], qv[3] + qv[4] * qv[5], qv[6] + qv[7]>>

\* Raw joint deltas the damped-least-squares solve returns, tick after tick
\* (each plan is repeated cyclically).  They stand for the floating-point
\* results that depend on the simulator's kinematics and the trajectory.
\* Their bounded norms are whole numbers of units (500, 500 and 50), so that
\* the sum and the average of the recorded norms stay exact.
RawA == <<600, 0, 0, 0, 0, 0, 0>>

RawB == <<400, 400, 400, 400, 0, 0, 0>>

RawC == <<-30, 40, 0, 0, 0, 0, 0>>

RawPlans == {<<RawA>>, <<RawC, RawB>>, <<RawB, RawA, RawC>>}

RawOfTick(pl, n) == pl[((n - 1) % Len(pl)) + 1]

\* The integer k with k * k = n, found by bisection (n a perfect square).
RECURSIVE SqrtIn(_, _, _)
SqrtIn(n, lo, hi) ==
    IF lo >= hi THEN lo
    ELSE LET mid == (lo + hi + 1) \div 2
         IN  IF mid * mid <= n THEN SqrtIn(n, mid, hi) ELSE SqrtIn(n, lo, mid - 1)

\* The integer a real on the unit grid stands for.
ToInt(x) == x.s * SqrtIn(x.n, 0, IF x.n < 46340 THEN x.n ELSE 46340)

\* ------------------------------------------------------------------------
\* main(): before the loop
\* ------------------------------------------------------------------------
\* An exception that leaves main() outside try/finally, or sys.exit(1).
Leave(kind) ==
    /\ pc' = "done"
    /\ outcome' = [kind |-> kind, site |-> pc]

\* handle = sim.getObject(path); joint_handles.append(handle)
ResolveJoint ==
    /\ pc = "resolve_joints"
    /\ joint_handles' = joint_handles + 1
    /\ pc' = IF joint_handles + 1 = NJ THEN "resolve_tip" ELSE pc
    /\ UNCHANGED <<tip_handle, loop_start_time, step_counter, q, p, J, col, dq,
                   dq_norms, pending, outcome, drained>>
    /\ UNCHANGED <<simVars, histVars, limVars, solVars, summary>>

\* A mutant of ResolveJointFails: the error is printed and main() goes on
\* without the handle.
ResolveJointFails_Continue ==
    /\ pc = "resolve_joints"
    /\ pc' = "resolve_tip"
    /\ UNCHANGED <<joint_handles, tip_handle, loop_start_time, step_counter, q, p,
                   J, col, dq, dq_norms, pending, outcome, drained>>
    /\ UNCHANGED <<simVars, histVars, limVars, solVars, summary>>

\* sim.getObject(path) raises: the error is printed and re-raised.
ResolveJointFails ==
    /\ pc = "resolve_joints"
    /\ \E kind \in ErrorKinds : Leave(kind)
    /\ UNCHANGED <<joint_handles, tip_handle, loop_start_time, step_counter, q, p,
                   J, col, dq, dq_norms, pending, drained>>
    /\ UNCHANGED <<simVars, histVars, limVars, solVars, summary>>

\* The tip handle is found by one of the paths or by the scene search.
ResolveTip ==
    /\ pc = "resolve_tip"
    /\ tip_handle' = TRUE
    /\ pc' = "start"
    /\ UNCHANGED <<joint_handles, loop_start_time, step_counter, q, p, J, col, dq,
                   dq_norms, pending, outcome, drained>>
    /\ UNCHANGED <<simVars, histVars, limVars, solVars, summary>>

\* No path resolves and the scene search finds nothing or fails: sys.exit(1).
ResolveTipFails ==
    /\ pc = "resolve_tip"
    /\ \E kind \in {"Exit", "Interrupt"} : Leave(kind)
    /\ UNCHANGED <<joint_handles, tip_handle, loop_start_time, step_counter, q, p,
                   J, col, dq, dq_norms, pending, drained>>
    /\ UNCHANGED <<simVars, histVars, limVars, solVars, summary>>

\* sim.startSimulation() returns.
StartSimulation ==
    /\ pc = "start"
    /\ simRunning' = TRUE
    /\ started' = TRUE
    /\ pc' = "loop_init"
    /\ UNCHANGED <<joint_handles, tip_handle, loop_start_time, step_counter, q, p,
                   J, col, dq, dq_norms, pending, outcome, drained>>
    /\ UNCHANGED <<simTime, robotQ, plan, limVars, solVars, summary>>
    /\ UNCHANGED <<stopInvoked, stepsInTick, pertInTick, recomputed, lastEst,
                   solverJ, firstError>>

\* sim.startSimulation() raises: the error is printed and re-raised.
StartSimulationFails ==
    /\ pc = "start"
    /\ \E kind \in ErrorKinds : Leave(kind)
    /\ UNCHANGED <<joint_handles, tip_handle, loop_start_time, step_counter, q, p,
                   J, col, dq, dq_norms, pending, drained>>
    /\ UNCHANGED <<simVars, histVars, limVars, solVars, summary>>

\* loop_start_time = sim.getSimulationTime(); dq_norms = []; J = None;
\* step_counter = 0.  These lines stand before the try statement.
LoopInit ==
    /\ pc = "loop_init"
    /\ loop_start_time' = simTime
    /\ dq_norms' = << >>
    /\ J' = JNone
    /\ step_counter' = 0
    /\ pc' = "while"
    /\ UNCHANGED <<joint_handles, tip_handle, q, p, col, dq, pending, outcome,
                   drained>>
    /\ UNCHANGED <<simVars, histVars, limVars, solVars, summary>>

\* sim.getSimulationTime() raises before the try statement is entered: no
\* finally block runs.
LoopInitFails ==
    /\ pc = "loop_init"
    /\ \E kind \in ErrorKinds : Leave(kind)
    /\ UNCHANGED <<joint_handles, tip_handle, loop_start_time, step_counter, q, p,
                   J, col, dq, dq_norms, pending, drained>>
    /\ UNCHANGED <<simVars, histVars, limVars, solVars, summary>>

\* ------------------------------------------------------------------------
\* main(): the control loop (the body of the try statement)
\* ------------------------------------------------------------------------
\* A mutant of LoopContinues: the absolute simulated time is compared.
LoopContinues_Absolute(now, start) == now < DURATION

\* while (sim.getSimulationTime() - loop_start_time) < DURATION
LoopContinues(now, start) == (now - start) < DURATION

\* The loop condition is evaluated: a tick starts or the loop ends.
While ==
    /\ pc = "while"
    /\ pc' = IF LoopContinues(simTime, loop_start_time)
             THEN "tick_begin" ELSE "after_loop"
    /\ UNCHANGED <<joint_handles, tip_handle, loop_start_time, step_counter, q, p,
                   J, col, dq, dq_norms, pending, outcome, drained>>
    /\ UNCHANGED <<simVars, histVars, limVars, solVars, summary>>

\* t_sim = sim.getSimulationTime(); t = t_sim - loop_start_time;
\* step_counter += 1
TickBegin ==
    /\ pc = "tick_begin"
    /\ step_counter' = step_counter + 1
    /\ stepsInTick' = 0
    /\ pertInTick' = 0
    /\ pc' = "read_q"
    /\ UNCHANGED <<joint_handles, tip_handle, loop_start_time, q, p, J, col, dq,
                   dq_norms, pending, outcome, drained>>
    /\ UNCHANGED <<simVars, limVars, solVars, summary>>
    /\ UNCHANGED <<started, stopInvoked, recomputed, lastEst, solverJ, firstError>>

\* q = [sim.getJointPosition(h) for h in joint_handles]
ReadJoints ==
    /\ pc = "read_q"
    /\ q' = robotQ
    /\ pc' = "read_p"
    /\ UNCHANGED <<joint_handles, tip_handle, loop_start_time, step_counter, p, J,
                   col, dq, dq_norms, pending, outcome, drained>>
    /\ UNCHANGED <<simVars, histVars, limVars, solVars, summary>>

\* A mutant of NeedsRecompute: the refresh falls on the tick after each
\* multiple of the period.
NeedsRecompute_AfterMultiple(Jc, n) ==
    Jc = JNone \/ n % JACOBIAN_UPDATE_PERIOD = 1

\* A mutant of NeedsRecompute: the cache is never used.
NeedsRecompute_Always(Jc, n) == TRUE

\* if J is None or step_counter % JACOBIAN_UPDATE_PERIOD == 0
NeedsRecompute(Jc, n) == Jc = JNone \/ n % JACOBIAN_UPDATE_PERIOD = 0

\* J = [[0.0] * 7 for _ in range(3)]
ZeroJ == [k \in 1..3 |-> [j \in Joints |-> 0]]

\* p = list(sim.getObjectPosition(tip_handle, -1)); dx is computed; then the
\* Jacobian is either reset for a new estimation or kept for the solve.
ReadTip ==
    /\ pc = "read_p"
    /\ p' = TipPosition(robotQ)
    /\ IF NeedsRecompute(J, step_counter)
       THEN /\ J' = ZeroJ
            /\ col' = 1
            /\ recomputed' = recomputed \cup {step_counter}
            /\ pc' = "pert_set"
       ELSE /\ pc' = "solve"
            /\ UNCHANGED <<J, col, recomputed>>
    /\ UNCHANGED <<joint_handles, tip_handle, loop_start_time, step_counter, q, dq,
                   dq_norms, pending, outcome, drained>>
    /\ UNCHANGED <<simVars, limVars, solVars, summary>>
    /\ UNCHANGED <<started, stopInvoked, stepsInTick, pertInTick, lastEst, solverJ,
                   firstError>>

\* q_pert = q[:]; q_pert[i] += EPS
Perturbed(qv, i) == [qv EXCEPT ![i] = qv[i] + EPS]

\* for j, h in enumerate(joint_handles): sim.setJointPosition(h, q_pert[j])
PerturbSet ==
    /\ pc = "pert_set"
    /\ robotQ' = Perturbed(q, col)
    /\ pertInTick' = pertInTick + 1
    /\ pc' = "pert_step"
    /\ UNCHANGED <<joint_handles, tip_handle, loop_start_time, step_counter, q, p,
                   J, col, dq, dq_norms, pending, outcome, drained>>
    /\ UNCHANGED <<simRunning, simTime, plan, limVars, solVars, summary>>
    /\ UNCHANGED <<started, stopInvoked, stepsInTick, recomputed, lastEst, solverJ,
                   firstError>>

\* client.step() after the perturbed configuration was commanded
PerturbStep ==
    /\ pc = "pert_step"
    /\ simTime' = simTime + 1
    /\ stepsInTick' = stepsInTick + 1
    /\ pc' = "pert_read"
    /\ UNCHANGED <<joint_handles, tip_handle, loop_start_time, step_counter, q, p,
                   J, col, dq, dq_norms, pending, outcome, drained>>
    /\ UNCHANGED <<simRunning, robotQ, plan, limVars, solVars, summary>>
    /\ UNCHANGED <<started, stopInvoked, pertInTick, recomputed, lastEst, solverJ,
                   firstError>>

\* for k in range(3): J[k][i] = (p_pert[k] - p[k]) / EPS
FillColumn(Jc, i, p_pert, p0) ==
    [k \in 1..3 |-> [Jc[k] EXCEPT ![i] = (p_pert[k] - p0[k]) \div EPS]]

\* p_pert = list(sim.getObjectPosition(tip_handle, -1)); column i is filled
PerturbRead ==
    /\ pc = "pert_read"
    /\ J' = FillColumn(J, col, TipPosition(robotQ), p)
    /\ pc' = "restore_set"
    /\ UNCHANGED <<joint_handles, tip_handle, loop_start_time, step_counter, q, p,
                   col, dq, dq_norms, pending, outcome, drained>>
    /\ UNCHANGED <<simVars, histVars, limVars, solVars, summary>>

\* A mutant of RestoreSet: the original configuration is not commanded.
RestoreSet_Skipped ==
    /\ pc = "restore_set"
    /\ pc' = "restore_step"
    /\ UNCHANGED <<joint_handles, tip_handle, loop_start_time, step_counter, q, p,
                   J, col, dq, dq_norms, pending, outcome, drained>>
    /\ UNCHANGED <<simVars, histVars, limVars, solVars, summary>>

\* for j, h in enumerate(joint_handles): sim.setJointPosition(h, q[j])
RestoreSet ==
    /\ pc = "restore_set"
    /\ robotQ' = q
    /\ pc' = "restore_step"
    /\ UNCHANGED <<joint_handles, tip_handle, loop_start_time, step_counter, q, p,
                   J, col, dq, dq_norms, pending, outcome, drained>>
    /\ UNCHANGED <<simRunning, simTime, plan, histVars, limVars, solVars, summary>>

\* client.step() after the restore; the for loop goes to the next column or
\* ends with the estimation complete.
RestoreStep ==
    /\ pc = "restore_step"
    /\ simTime' = simTime + 1
    /\ stepsInTick' = stepsInTick + 1
    /\ IF col = NJ
       THEN /\ pc' = "solve"
            /\ lastEst' = J
            /\ col' = col
       ELSE /\ pc' = "pert_set"
            /\ col' = col + 1
            /\ lastEst' = lastEst
    /\ UNCHANGED <<joint_handles, tip_handle, loop_start_time, step_counter, q, p,
                   J, dq, dq_norms, pending, outcome, drained>>
    /\ UNCHANGED <<simRunning, robotQ, plan, limVars, solVars, summary>>
    /\ UNCHANGED <<started, stopInvoked, pertInTick, recomputed, solverJ,
                   firstError>>

\* A mutant of Solve: the norm is not recorded.
Solve_Unrecorded ==
    /\ pc = "solve"
    /\ LET raw == RawOfTick(plan, step_counter)
           lim == Limiter([j \in Joints |-> Num(raw[j])], Num(MAX_DQ))
       IN  dq' = [j \in Joints |-> ToInt(lim.dq[j])]
    /\ solverJ' = J
    /\ pc' = "command"
    /\ UNCHANGED <<joint_handles, tip_handle, loop_start_time, step_counter, q, p,
                   J, col, dq_norms, pending, outcome, drained>>
    /\ UNCHANGED <<simVars, limVars, solVars, summary>>
    /\ UNCHANGED <<started, stopInvoked, stepsInTick, pertInTick, recomputed,
                   lastEst, firstError>>

\* Solve for dq by damped least squares, bound it with the limiter, record
\* its norm: dq_norms.append(dq_norm).  The raw solution is the simulator
\* plan's; the Jacobian handed to the solve is remembered.
Solve ==
    /\ pc = "solve"
    /\ LET raw == RawOfTick(plan, step_counter)
           lim == Limiter([j \in Joints |-> Num(raw[j])], Num(MAX_DQ))
       IN  /\ dq' = [j \in Joints |-> ToInt(lim.dq[j])]
           /\ dq_norms' = Append(dq_norms, lim.dq_norm)
    /\ solverJ' = J
    /\ pc' = "command"
    /\ UNCHANGED <<joint_handles, tip_handle, loop_start_time, step_counter, q, p,
                   J, col, pending, outcome, drained>>
    /\ UNCHANGED <<simVars, limVars, solVars, summary>>
    /\ UNCHANGED <<started, stopInvoked, stepsInTick, pertInTick, recomputed,
                   lastEst, firstError>>

\* A mutant of Integrate: the delta is added twice.
Integrate_Double(qv, d) == [j \in Joints |-> qv[j] + 2 * d[j]]

\* q_new = [q[i] + dq[i] for i in range(7)]
Integrate(qv, d) == [j \in Joints |-> qv[j] + d[j]]

\* for j, h in enumerate(joint_handles): sim.setJointPosition(h, q_new[j])
Command ==
    /\ pc = "command"
    /\ robotQ' = Integrate(q, dq)
    /\ pc' = "step"
    /\ UNCHANGED <<joint_handles, tip_handle, loop_start_time, step_counter, q, p,
                   J, col, dq, dq_norms, pending, outcome, drained>>
    /\ UNCHANGED <<simRunning, simTime, plan, histVars, limVars, solVars, summary>>

\* A mutant of Step: the else branch is taken, time.sleep(DT), and no
\* simulated-time advance is requested.
Step_Sleep ==
    /\ pc = "step"
    /\ pc' = "while"
    /\ UNCHANGED <<joint_handles, tip_handle, loop_start_time, step_counter, q, p,
                   J, col, dq, dq_norms, pending, outcome, drained>>
    /\ UNCHANGED <<simVars, histVars, limVars, solVars, summary>>

\* if USE_STEPPING: client.step()   (the tick's own time advance)
Step ==
    /\ pc = "step"
    /\ simTime' = simTime + 1
    /\ stepsInTick' = stepsInTick + 1
    /\ pc' = "while"
    /\ UNCHANGED <<joint_handles, tip_handle, loop_start_time, step_counter, q, p,
                   J, col, dq, dq_norms, pending, outcome, drained>>
    /\ UNCHANGED <<simRunning, robotQ, plan, limVars, solVars, summary>>
    /\ UNCHANGED <<started, stopInvoked, pertInTick, recomputed, lastEst, solverJ,
                   firstError>>

\* A mutant of AfterLoop: there is no finally block, the summary follows the
\* loop.
AfterLoop_NoFinally ==
    /\ pc = "after_loop"
    /\ pc' = "finish"
    /\ UNCHANGED <<joint_handles, tip_handle, loop_start_time, step_counter, q, p,
                   J, col, dq, dq_norms, pending, outcome, drained>>
    /\ UNCHANGED <<simVars, histVars, limVars, solVars, summary>>

\* actual_duration = sim.getSimulationTime() - loop_start_time; the try body
\* ends and the finally block is entered.
AfterLoop ==
    /\ pc = "after_loop"
    /\ pc' = "drain"
    /\ drained' = 0
    /\ UNCHANGED <<joint_handles, tip_handle, loop_start_time, step_counter, q, p,
                   J, col, dq, dq_norms, pending, outcome>>
    /\ UNCHANGED <<simVars, histVars, limVars, solVars, summary>>

\* ------------------------------------------------------------------------
\* main(): an exception inside the try body
\* ------------------------------------------------------------------------
\* Positions of the try body whose call or computation can raise without
\* having changed the simulator.
CallSites ==
    {"while", "tick_begin", "read_q", "read_p", "pert_step", "pert_read",
     "restore_step", "solve", "step", "after_loop"}

\* Positions that command all 7 joints, one sim.setJointPosition each.
SetSites == {"pert_set", "restore_set", "command"}

\* A mutant of OnRaise: a failed probe is given up and the tick goes on to
\* the solve.
OnRaise_SkipToSolve(site) ==
    IF site \in {"pert_set", "pert_step", "pert_read", "restore_set",
                 "restore_step"}
    THEN "solve"
    ELSE "drain"

\* A mutant of OnRaise: the failed call is tried again.
OnRaise_Retry(site) == site

\* Where control goes when the try body raises at a site: the finally block.
OnRaise(site) == "drain"

\* The exception leaves the try body: it stays in flight while finally runs.
Raise(kind) ==
    /\ pending' = [kind |-> kind, site |-> pc]
    /\ firstError' = [kind |-> kind, site |-> pc]
    /\ pc' = OnRaise(pc)
    /\ drained' = 0

\* A call of the try body raises (the remote API fails, solve_3x3 raises
\* ValueError, or the user interrupts).
CallFails ==
    /\ pc \in CallSites
    /\ \E kind \in ErrorKinds : Raise(kind)
    /\ UNCHANGED <<joint_handles, tip_handle, loop_start_time, step_counter, q, p,
                   J, col, dq, dq_norms, outcome>>
    /\ UNCHANGED <<simVars, limVars, solVars, summary>>
    /\ UNCHANGED <<started, stopInvoked, stepsInTick, pertInTick, recomputed,
                   lastEst, solverJ>>

\* The configuration a set loop is commanding.
SetTarget(site) ==
    IF site = "pert_set" THEN Perturbed(q, col)
    ELSE IF site = "restore_set" THEN q
    ELSE Integrate(q, dq)

\* sim.setJointPosition raises on joint k+1 of a set loop: joints 1..k hold
\* the commanded values, the others what they held.
SetFails ==
    /\ pc \in SetSites
    /\ \E k \in 0..(NJ - 1) :
          robotQ' = [j \in Joints |->
                        IF j <= k THEN SetTarget(pc)[j] ELSE robotQ[j]]
    /\ \E kind \in ErrorKinds : Raise(kind)
    /\ pertInTick' = IF pc = "pert_set" THEN pertInTick + 1 ELSE pertInTick
    /\ UNCHANGED <<joint_handles, tip_handle, loop_start_time, step_counter, q, p,
                   J, col, dq, dq_norms, outcome>>
    /\ UNCHANGED <<simRunning, simTime, plan, limVars, solVars, summary>>
    /\ UNCHANGED <<started, stopInvoked, stepsInTick, recomputed, lastEst,
                   solverJ>>

\* ------------------------------------------------------------------------
\* main(): the finally block and the return
\* ------------------------------------------------------------------------
\* for _ in range(5): client.step()   (one residual time advance that returns)
DrainStep ==
    /\ pc = "drain"
    /\ simTime' = simTime + 1
    /\ drained' = drained + 1
    /\ pc' = IF drained + 1 = DRAIN_STEPS THEN "stop" ELSE "drain"
    /\ UNCHANGED <<joint_handles, tip_handle, loop_start_time, step_counter, q, p,
                   J, col, dq, dq_norms, pending, outcome>>
    /\ UNCHANGED <<simRunning, robotQ, plan, histVars, limVars, solVars, summary>>

\* A residual client.step() raises an Exception: except Exception: break
DrainStepFails ==
    /\ pc = "drain"
    /\ drained' = drained + 1
    /\ pc' = "stop"
    /\ UNCHANGED <<joint_handles, tip_handle, loop_start_time, step_counter, q, p,
                   J, col, dq, dq_norms, pending, outcome>>
    /\ UNCHANGED <<simVars, histVars, limVars, solVars, summary>>

\* The user interrupts a residual client.step(): KeyboardInterrupt is no
\* Exception, so neither except clause of the finally block catches it; it
\* leaves the finally block, replacing any exception in flight.
DrainInterrupted ==
    /\ pc = "drain"
    /\ drained' = drained + 1
    /\ pending' = [kind |-> "Interrupt", site |-> pc]
    /\ pc' = "finish"
    /\ UNCHANGED <<joint_handles, tip_handle, loop_start_time, step_counter, q, p,
                   J, col, dq, dq_norms, outcome>>
    /\ UNCHANGED <<simVars, histVars, limVars, solVars, summary>>

\* sim.stopSimulation() returns.
StopSimulation ==
    /\ pc = "stop"
    /\ stopInvoked' = TRUE
    /\ simRunning' = FALSE
    /\ pc' = "finish"
    /\ UNCHANGED <<joint_handles, tip_handle, loop_start_time, step_counter, q, p,
                   J, col, dq, dq_norms, pending, outcome, drained>>
    /\ UNCHANGED <<simTime, robotQ, plan, limVars, solVars, summary>>
    /\ UNCHANGED <<started, stepsInTick, pertInTick, recomputed, lastEst, solverJ,
                   firstError>>

\* A mutant of StopSimulationFails: the Exception is not caught and leaves
\* the finally block.
StopSimulationFails_Propagates ==
    /\ pc = "stop"
    /\ stopInvoked' = TRUE
    /\ simRunning' \in {simRunning, FALSE}
    /\ pending' = [kind |-> "Error", site |-> pc]
    /\ pc' = "finish"
    /\ UNCHANGED <<joint_handles, tip_handle, loop_start_time, step_counter, q, p,
                   J, col, dq, dq_norms, outcome, drained>>
    /\ UNCHANGED <<simTime, robotQ, plan, limVars, solVars, summary>>
    /\ UNCHANGED <<started, stepsInTick, pertInTick, recomputed, lastEst, solverJ,
                   firstError>>

\* sim.stopSimulation() raises an Exception: a warning is printed and the
\* error is dropped; the simulator may or may not have stopped.
StopSimulationFails ==
    /\ pc = "stop"
    /\ stopInvoked' = TRUE
    /\ simRunning' \in {simRunning, FALSE}
    /\ pc' = "finish"
    /\ UNCHANGED <<joint_handles, tip_handle, loop_start_time, step_counter, q, p,
                   J, col, dq, dq_norms, pending, outcome, drained>>
    /\ UNCHANGED <<simTime, robotQ, plan, limVars, solVars, summary>>
    /\ UNCHANGED <<started, stepsInTick, pertInTick, recomputed, lastEst, solverJ,
                   firstError>>

\* The user interrupts sim.stopSimulation(): the KeyboardInterrupt leaves the
\* finally block.
StopInterrupted ==
    /\ pc = "stop"
    /\ stopInvoked' = TRUE
    /\ simRunning' \in {simRunning, FALSE}
    /\ pending' = [kind |-> "Interrupt", site |-> pc]
    /\ pc' = "finish"
    /\ UNCHANGED <<joint_handles, tip_handle, loop_start_time, step_counter, q, p,
                   J, col, dq, dq_norms, outcome, drained>>
    /\ UNCHANGED <<simTime, robotQ, plan, limVars, solVars, summary>>
    /\ UNCHANGED <<started, stepsInTick, pertInTick, recomputed, lastEst, solverJ,
                   firstError>>

\* The finally block is left with an exception in flight: it reaches the
\* caller of main().
Reraise ==
    /\ pc = "finish"
    /\ pending # NoError
    /\ outcome' = pending
    /\ pc' = "done"
    /\ UNCHANGED <<joint_handles, tip_handle, loop_start_time, step_counter, q, p,
                   J, col, dq, dq_norms, pending, drained>>
    /\ UNCHANGED <<simVars, histVars, limVars, solVars, summary>>

\* sum(dq_norms) over the first k samples, in units (the samples are whole
\* numbers of units).
RECURSIVE SumOf(_, _)
SumOf(seq, k) == IF k = 0 THEN 0 ELSE SumOf(seq, k - 1) + ToInt(seq[k])

\* min(dq_norms) and max(dq_norms) of a non-empty list (equal reals have
\* one form, so the least and the greatest sample are unique).
MinOf(seq) ==
    LET samples == {seq[i] : i \in 1..Len(seq)}
    IN  CHOOSE x \in samples : \A y \in samples : RLeq(x, y)

MaxOf(seq) ==
    LET samples == {seq[i] : i \in 1..Len(seq)}
    IN  CHOOSE x \in samples : \A y \in samples : RLeq(y, x)

\* A mutant of AvgOf: the sum is not divided by the number of samples.
AvgOf_Sum(seq) == LET total == SumOf(seq, Len(seq)) IN Num(total)

\* avg_dq_norm = sum(dq_norms) / len(dq_norms)
AvgOf(seq) == LET total == SumOf(seq, Len(seq)) IN RDiv(Num(total), Num(Len(seq)))

\* The aggregates before the summary computes them.
SummaryNone == [count |-> 0, avg |-> Num(0), min |-> Num(0), max |-> Num(0)]

\* No exception in flight: the summary is printed (the aggregates, if
\* dq_norms is not empty) and main() returns.
Summary ==
    /\ pc = "finish"
    /\ pending = NoError
    /\ summary' = IF dq_norms # << >>
                  THEN [count |-> Len(dq_norms),
                        avg |-> AvgOf(dq_norms),
                        min |-> MinOf(dq_norms),
                        max |-> MaxOf(dq_norms)]
                  ELSE summary
    /\ outcome' = [kind |-> "Ok", site |-> pc]
    /\ pc' = "done"
    /\ UNCHANGED <<joint_handles, tip_handle, loop_start_time, step_counter, q, p,
                   J, col, dq, dq_norms, pending, drained>>
    /\ UNCHANGED <<simVars, histVars, limVars, solVars>>

\* ------------------------------------------------------------------------
\* Specification of a run of main()
\* ------------------------------------------------------------------------
LimNone == [dq |-> << >>, dq_norm |-> Num(0)]

LimIdle ==
    /\ lim_dq = ZeroVec
    /\ lim_cap = 1
    /\ lim_out = LimNone

\* No solve is made on its own.
SolNone == [raised |-> FALSE, dq |-> << >>]

ZeroMat(rows, cols) == [i \in 1..rows |-> [j \in 1..cols |-> 0]]

SolIdle ==
    /\ sol_pc = "idle"
    /\ sol_J = ZeroMat(3, NJ)
    /\ sol_dx = <<Q(0, 1, 0), Q(0, 1, 0), Q(0, 1, 0)>>
    /\ sol_lam = Q(0, 1, 0)
    /\ sol_out = SolNone

S3Idle ==
    /\ s3_pc = "idle"
    /\ s3_A = [i \in 1..3 |-> [j \in 1..3 |-> Q(0, 1, 0)]]
    /\ s3_b = <<Q(0, 1, 0), Q(0, 1, 0), Q(0, 1, 0)>>
    /\ s3_det = Q(0, 1, 0)
    /\ s3_x = << >>

\* Simulated time when main() connects: a fresh simulation, or one that has
\* already run for a while.
SimStartTimes == {0, 12}

\* main() at its first statement, the simulator stopped.
InitProg ==
    /\ pc = "resolve_joints"
    /\ joint_handles = 0
    /\ tip_handle = FALSE
    /\ loop_start_time = 0
    /\ step_counter = 0
    /\ q = ZeroVec
    /\ p = <<0, 0, 0>>
    /\ J = JNone
    /\ col = 1
    /\ dq = ZeroVec
    /\ dq_norms = << >>
    /\ pending = NoError
    /\ outcome = Running
    /\ drained = 0
    /\ simRunning = FALSE
    /\ robotQ = ZeroVec
    /\ started = FALSE
    /\ stopInvoked = FALSE
    /\ stepsInTick = 0
    /\ pertInTick = 0
    /\ recomputed = {}
    /\ lastEst = JNone
    /\ solverJ = JNone
    /\ firstError = NoError
    /\ summary = SummaryNone

Init ==
    /\ InitProg
    /\ simTime \in SimStartTimes
    /\ plan \in RawPlans
    /\ LimIdle
    /\ SolIdle
    /\ S3Idle

Next ==
    \/ ResolveJoint
    \/ ResolveJointFails
    \/ ResolveTip
    \/ ResolveTipFails
    \/ StartSimulation
    \/ StartSimulationFails
    \/ LoopInit
    \/ LoopInitFails
    \/ While
    \/ TickBegin
    \/ ReadJoints
    \/ ReadTip
    \/ PerturbSet
    \/ PerturbStep
    \/ PerturbRead
    \/ RestoreSet
    \/ RestoreStep
    \/ Solve
    \/ Command
    \/ Step
    \/ AfterLoop
    \/ CallFails
    \/ SetFails
    \/ DrainStep
    \/ DrainStepFails
    \/ DrainInterrupted
    \/ StopSimulation
    \/ StopSimulationFails
    \/ StopInterrupted
    \/ Reraise
    \/ Summary

Spec == Init /\ [][Next]_vars

\* ------------------------------------------------------------------------
\* Specification of a run in which every collaborator call returns
\* ------------------------------------------------------------------------
\* The steps of main() when no call raises and the user does not interrupt.
NextReturning ==
    \/ ResolveJoint
    \/ ResolveTip
    \/ StartSimulation
    \/ LoopInit
    \/ While
    \/ TickBegin
    \/ ReadJoints
    \/ ReadTip
    \/ PerturbSet
    \/ PerturbStep
    \/ PerturbRead
    \/ RestoreSet
    \/ RestoreStep
    \/ Solve
    \/ Command
    \/ Step
    \/ AfterLoop
    \/ DrainStep
    \/ StopSimulation
    \/ Summary

\* The steps whose successor is cheap to compute.
NextLight ==
    \/ ResolveJoint
    \/ ResolveTip
    \/ StartSimulation
    \/ LoopInit
    \/ While
    \/ TickBegin
    \/ ReadJoints
    \/ ReadTip
    \/ PerturbSet
    \/ PerturbStep
    \/ PerturbRead
    \/ RestoreSet
    \/ RestoreStep
    \/ Command
    \/ Step
    \/ AfterLoop
    \/ DrainStep
    \/ StopSimulation

\* main() is one sequential thread and every call returns: it always takes
\* its next step.  This is weak fairness of every step; for Solve and
\* Summary it is written out ("infinitely often not enabled, or infinitely
\* often taken") with their enabling conditions in the place of ENABLED.
Fairness ==
    /\ WF_vars(NextLight)
    /\ ([]<>(pc # "solve")) \/ ([]<> <<Solve>>_vars)
    /\ ([]<>(pc # "finish" \/ pending # NoError)) \/ ([]<> <<Summary>>_vars)

SpecReturning == Init /\ [][NextReturning]_vars /\ Fairness

\* ------------------------------------------------------------------------
\* Specification of the limiter on its own: any raw dq, any cap
\* ------------------------------------------------------------------------
\* Components of the raw joint deltas tried: zero, one unit and the largest
\* magnitude, of either sign.
RawVals == {0 - MaxRaw, -1, 0, 1, MaxRaw}

LimInit ==
    /\ InitProg
    /\ simTime = 0
    /\ plan = <<RawA>>
    /\ lim_dq \in [Joints -> RawVals]
    /\ lim_cap \in 1..MaxCap
    /\ lim_out = LimNone
    /\ SolIdle
    /\ S3Idle

\* The limiter is applied to the raw joint delta.
LimApply ==
    /\ lim_out = LimNone
    /\ lim_out' = Limiter([j \in Joints |-> Num(lim_dq[j])], Num(lim_cap))
    /\ UNCHANGED <<lim_dq, lim_cap, progVars, simVars, histVars, solVars, summary>>

LimNext == LimApply

SpecLimiter == LimInit /\ [][LimNext]_vars

\* ------------------------------------------------------------------------
\* Specification of the solve on its own, and of solve_3x3 on its own
\* ------------------------------------------------------------------------
\* Rows of the Jacobians tried: zero, three unit rows, and a row of norm^2 2.
Unit(i) == [j \in Joints |-> IF j = i THEN 1 ELSE 0]

SolRows == {ZeroVec, Unit(1), Unit(2), Unit(3), <<1, 0, 0, 1, 0, 0, 0>>}

SolJs == [1..3 -> SolRows]

\* Dampings tried: none, 0.02 and 0.03 (lambda^6 = 6.4e-11 and 7.29e-10, on
\* either side of 1e-10), and the configured LAMBDA.
Lambdas == {Q(0, 1, 0), Q(2, 1, 2), Q(3, 1, 2), Lambda}

\* At most one row of the Jacobian is not zero.
LowRank(Jm) == Cardinality({k \in 1..3 : Jm[k] # ZeroVec}) <= 1

\* The Jacobians and dampings tried together: every Jacobian with no damping
\* and with LAMBDA; with 0.02 and 0.03, whose determinants have 12 decimals,
\* the Jacobians of at most one non-zero row (the products fit in 31 bits).
SolCases ==
    {c \in SolJs \X Lambdas : c[2] \in {Q(0, 1, 0), Lambda} \/ LowRank(c[1])}

\* dx of the circle trajectory: STEP_SIZE * (cos, sin, 0) at three angles.
SolDxs ==
    {<<STEP_SIZE, Q(0, 1, 0), Q(0, 1, 0)>>,
     <<Q(0, 1, 0), QNeg(STEP_SIZE), Q(0, 1, 0)>>,
     <<Q(12, 1, 4), Q(16, 1, 4), Q(0, 1, 0)>>}

\* Matrices handed to solve_3x3 directly: diagonal ones over -1, -1e-5, 0,
\* 1e-5, 1 (determinants 0, +-1e-15, +-1e-10, +-1e-5, +-1), and full ones of
\* determinant 18, 1, 0 and 1e-12.
S3Vals == {Q(-1, 1, 0), Q(-1, 1, 5), Q(0, 1, 0), Q(1, 1, 5), Q(1, 1, 0)}

Diag(a, b, c) ==
    <<<<a, Q(0, 1, 0), Q(0, 1, 0)>>, <<Q(0, 1, 0), b, Q(0, 1, 0)>>,
      <<Q(0, 1, 0), Q(0, 1, 0), c>>>>

\* The integer matrix M, every entry times 10^(-e).
Scaled(M, e) == [i \in 1..Len(M) |-> [j \in 1..Len(M[1]) |-> Q(M[i][j], 1, e)]]

S3Full ==
    {Scaled(<<<<2, 1, 0>>, <<1, 3, 1>>, <<0, 1, 4>>>>, 0),
     Scaled(<<<<1, 2, 3>>, <<0, 1, 4>>, <<5, 6, 0>>>>, 0),
     Scaled(<<<<1, 2, 3>>, <<2, 4, 6>>, <<1, 0, 1>>>>, 0),
     Scaled(<<<<1, 2, 3>>, <<0, 1, 4>>, <<5, 6, 0>>>>, 4)}

S3As == {Diag(a, b, c) : a \in S3Vals, b \in S3Vals, c \in S3Vals} \cup S3Full

S3bs == {<<QInt(1), QInt(2), QInt(3)>>, <<STEP_SIZE, Q(0, 1, 0), Q(0, 1, 0)>>}

\* One call is made: of the solve of a tick, or of solve_3x3.
SolInit ==
    /\ InitProg
    /\ simTime = 0
    /\ plan = <<RawA>>
    /\ LimIdle
    /\ \/ /\ sol_pc = "call"
          /\ \E c \in SolCases : sol_J = c[1] /\ sol_lam = c[2]
          /\ sol_dx \in SolDxs
          /\ sol_out = SolNone
          /\ S3Idle
       \/ /\ SolIdle
          /\ s3_pc = "call"
          /\ s3_A \in S3As
          /\ s3_b \in S3bs
          /\ s3_det = Q(0, 1, 0)
          /\ s3_x = << >>

\* The damped-least-squares solve of a tick is applied to J, dx and lambda.
SolveApply ==
    /\ sol_pc = "call"
    /\ sol_out' = DampedLeastSquares(Scaled(sol_J, 0), sol_dx, sol_lam)
    /\ sol_pc' = "done"
    /\ UNCHANGED <<sol_J, sol_dx, sol_lam, s3_pc, s3_A, s3_b, s3_det, s3_x>>
    /\ UNCHANGED <<progVars, simVars, histVars, limVars, summary>>

\* solve_3x3: det is computed and tested; a singular matrix raises here.
S3Det ==
    /\ s3_pc = "call"
    /\ s3_det' = Det3(s3_A)
    /\ s3_pc' = IF IsSingular(Det3(s3_A)) THEN "raised" ELSE "components"
    /\ UNCHANGED <<sol_pc, sol_J, sol_dx, sol_lam, sol_out, s3_A, s3_b, s3_x>>
    /\ UNCHANGED <<progVars, simVars, histVars, limVars, summary>>

\* solve_3x3: det_x, det_y, det_z are computed and the solution is returned.
S3Components ==
    /\ s3_pc = "components"
    /\ s3_x' = Cramer(s3_A, s3_b, s3_det)
    /\ s3_pc' = "returned"
    /\ UNCHANGED <<sol_pc, sol_J, sol_dx, sol_lam, sol_out, s3_A, s3_b, s3_det>>
    /\ UNCHANGED <<progVars, simVars, histVars, limVars, summary>>

SolNext ==
    \/ SolveApply
    \/ S3Det
    \/ S3Components

SpecSolver == SolInit /\ [][SolNext]_vars

\* ------------------------------------------------------------------------
\* Notions the properties below are stated with
\* ------------------------------------------------------------------------
\* Positions of the try body: the RUNNING ticks.
TickSites == CallSites \cup SetSites

\* Positions of a Jacobian estimation.
EstimationSites ==
    {"pert_set", "pert_step", "pert_read", "restore_set", "restore_step"}

\* Simulated time elapsed since the loop started.
Elapsed == simTime - loop_start_time

\* The orchestrator's phase.  EXITED: main() has left without stopSimulation
\* having been called.
Phase ==
    IF stopInvoked THEN "STOPPED"
    ELSE IF pc \in {"resolve_joints", "resolve_tip", "start"} THEN "INIT"
    ELSE IF pc \in TickSites \cup {"loop_init"} THEN "RUNNING"
    ELSE IF pc \in {"drain", "stop"} THEN "DRAINING"
    ELSE "EXITED"

PhaseSteps ==
    {<<"INIT", "RUNNING">>, <<"RUNNING", "DRAINING">>, <<"DRAINING", "STOPPED">>,
     <<"INIT", "EXITED">>, <<"RUNNING", "EXITED">>, <<"DRAINING", "EXITED">>}

\* Positions of a tick after the tick counter was incremented.
MidTick ==
    {"read_q", "read_p", "pert_set", "pert_step", "pert_read", "restore_set",
     "restore_step", "solve", "command", "step"}

\* Ticks whose command and time advance have completed.
TicksCompleted ==
    IF pc \in MidTick \/ firstError.site \in MidTick
    THEN step_counter - 1
    ELSE step_counter

\* The order of the positions of a tick.
TickOrder ==
    {<<"while", "tick_begin">>, <<"tick_begin", "read_q">>, <<"read_q", "read_p">>,
     <<"read_p", "pert_set">>, <<"read_p", "solve">>, <<"pert_set", "pert_step">>,
     <<"pert_step", "pert_read">>, <<"pert_read", "restore_set">>,
     <<"restore_set", "restore_step">>, <<"restore_step", "pert_set">>,
     <<"restore_step", "solve">>, <<"solve", "command">>, <<"command", "step">>,
     <<"step", "while">>, <<"while", "after_loop">>}

\* The determinant of a 3x3 matrix by the rule of Sarrus (the three
\* diagonals minus the three anti-diagonals).
Sarrus(A) ==
    QSub(QAdd(QAdd(QMul(QMul(A[1][1], A[2][2]), A[3][3]),
                   QMul(QMul(A[1][2], A[2][3]), A[3][1])),
              QMul(QMul(A[1][3], A[2][1]), A[3][2])),
         QAdd(QAdd(QMul(QMul(A[1][3], A[2][2]), A[3][1]),
                   QMul(QMul(A[1][1], A[2][3]), A[3][2])),
              QMul(QMul(A[1][2], A[2][1]), A[3][3])))

\* The Jacobian a completed estimation at configuration qv holds: column i
\* is (P(qv with joint i increased by EPS) - P(qv)) / EPS.
NumericalJacobian(qv) ==
    [k \in 1..3 |->
        [i \in Joints |->
            (TipPosition(Perturbed(qv, i))[k] - TipPosition(qv)[k]) \div EPS]]

\* The user interrupted a call of the finally block (KeyboardInterrupt is
\* not an Exception: the run is cancelled, the call has not failed).
InterruptedInCleanup ==
    pending.kind = "Interrupt" /\ pending.site \in {"drain", "stop"}

\* Row i of A times the vector x.
RowTimes(A, i, x) ==
    QAdd(QAdd(QMul(A[i][1], x[1]), QMul(A[i][2], x[2])), QMul(A[i][3], x[3]))

\* ------------------------------------------------------------------------
\* C1.  Once startSimulation has succeeded, every way the run can end has
\* stopSimulation invoked before control returns to the caller.
\* Stated as: whenever main() has returned after a successful start,
\* stopSimulation was called.  The code does not satisfy it: an exception at
\* loop_start_time = sim.getSimulationTime() leaves main() before the try
\* statement, and an interrupt during the residual steps leaves the finally
\* block before sim.stopSimulation().
\* ------------------------------------------------------------------------
C1_StopInvokedOnEveryExit == (pc = "done" /\ started) => stopInvoked

\* ------------------------------------------------------------------------
\* C2.  When a step of a RUNNING tick fails, at most 5 residual time
\* advances are made, then stopSimulation is called, and the error that
\* reaches the caller is the original one.
\* Stated as: whenever main() has returned after an exception in the try
\* body, at most DRAIN_STEPS residual steps were made, stopSimulation was
\* called and the outcome is that first exception.  The code does not
\* satisfy it when the user interrupts a residual step (see C1).
\* ------------------------------------------------------------------------
C2_DrainStopReraise ==
    (pc = "done" /\ firstError # NoError)
        => (drained <= DRAIN_STEPS /\ stopInvoked /\ outcome = firstError)

\* What the code does guarantee for C1 and C2: a run that entered the try
\* statement and whose finally block was not interrupted has called
\* stopSimulation after at most DRAIN_STEPS residual steps, and returns
\* normally or with the exception that ended the loop.
CleanupWithoutInterrupt ==
    (pc = "done" /\ outcome.site \notin {"resolve_joints", "resolve_tip", "start",
                                         "loop_init", "drain", "stop"})
        => /\ stopInvoked
           /\ drained <= DRAIN_STEPS
           /\ outcome = IF firstError = NoError
                        THEN [kind |-> "Ok", site |-> "finish"]
                        ELSE firstError

\* ------------------------------------------------------------------------
\* C3.  After a Jacobian estimation started from q ends, by success or by a
\* failed probe, the simulator holds the joint configuration q.
\* Stated as: when the estimation has completed (the solve is next on a
\* recomputing tick) or an exception was raised at one of its positions, the
\* simulator's configuration equals q.  The code does not satisfy it: a
\* failure after the perturbed configuration was commanded goes to the
\* finally block, which does not restore q.
\* ------------------------------------------------------------------------
C3_RestoredAfterEstimation ==
    (\/ (pc = "solve" /\ step_counter \in recomputed)
     \/ firstError.site \in EstimationSites)
        => robotQ = q

\* ------------------------------------------------------------------------
\* C4.  The claim as made: when 20 ticks have completed, the Jacobian was
\* recomputed exactly on ticks 1, 6, 11 and 16.
\* ------------------------------------------------------------------------
C4_RecomputedOn_1_6_11_16 ==
    (pc = "while" /\ step_counter = 20) => recomputed = {1, 6, 11, 16}

\* C4, amended.  Over the first 20 ticks the Jacobian is recomputed exactly
\* on ticks 1, 5, 10, 15 and 20 (the first tick and every multiple of the
\* period 5), and reused on every other tick: after each completed tick n <=
\* 20 the recomputing ticks are those of {1, 5, 10, 15, 20} up to n.
C4_RecomputedOn_1_5_10_15_20 ==
    (pc = "while" /\ step_counter <= 20)
        => recomputed = {1, 5, 10, 15, 20} \cap (1..step_counter)

\* Twenty ticks have completed.
C4_Witness == pc = "while" /\ step_counter = 20 /\ Cardinality(recomputed) = 5

\* ------------------------------------------------------------------------
\* C5.  On every tick the Jacobian is recomputed if and only if no Jacobian
\* has been estimated yet or the tick counter is a multiple of the refresh
\* period; on every other tick the solve gets the Jacobian of the last
\* completed estimation, unchanged, and no perturbed configuration is
\* commanded.
\* ------------------------------------------------------------------------
C5_RecomputeIffNoneOrDue ==
    /\ [][(pc = "read_p" /\ pc' \in {"pert_set", "solve"})
            => ((pc' = "pert_set")
                  <=> (lastEst = JNone
                         \/ step_counter % JACOBIAN_UPDATE_PERIOD = 0))]_vars
    /\ []((pc \in {"command", "step"} /\ step_counter \notin recomputed)
            => (solverJ = lastEst /\ pertInTick = 0))

\* Tick 7 has solved with the Jacobian estimated on tick 5.
C5_Witness ==
    /\ pc = "step"
    /\ step_counter = 7
    /\ recomputed = {1, 5}
    /\ solverJ = lastEst
    /\ pertInTick = 0

\* ------------------------------------------------------------------------
\* C6.  A tick starts only while the simulated time elapsed since the loop
\* started is below DURATION, and the loop is left normally only when it is
\* at least DURATION.
\* ------------------------------------------------------------------------
C6_TickIffElapsedBelowDuration ==
    /\ pc = "tick_begin" => Elapsed < DURATION
    /\ pc = "after_loop" => Elapsed >= DURATION

\* The loop has ended normally, from a start time that is not zero.
C6_Witness == pc = "after_loop" /\ loop_start_time > 0 /\ step_counter > 1

\* ------------------------------------------------------------------------
\* C7.  The claim as made: every tick requests exactly one time advance, so
\* after n completed ticks simulated time has advanced by n steps.
\* ------------------------------------------------------------------------
C7_OneAdvancePerTick ==
    (pc = "while" /\ step_counter >= 1)
        => (stepsInTick = 1 /\ Elapsed = step_counter)

\* C7, amended.  A tick that reuses the cached Jacobian requests exactly one
\* time advance; a tick that recomputes it requests 1 + 2 * 7 = 15 (one
\* after each perturbation, one after each restore, and the tick's own).
\* After n completed ticks, r of them recomputing, simulated time has
\* advanced by n + 14 * r steps.
C7_AdvancesPerTick ==
    (pc = "while" /\ step_counter >= 1)
        => /\ stepsInTick = IF step_counter \in recomputed THEN 1 + 2 * NJ ELSE 1
           /\ Elapsed = step_counter + 2 * NJ * Cardinality(recomputed)

\* Six ticks have completed, the last one reusing the Jacobian.
C7_Witness == pc = "while" /\ step_counter = 6 /\ stepsInTick = 1

\* ------------------------------------------------------------------------
\* C8.  The phases occur only in the order INIT, RUNNING, DRAINING, STOPPED;
\* a tick runs only with all 7 joint handles and the tip handle resolved and
\* the simulation started; when resolution fails the simulation is never
\* started; DRAINING is entered only from RUNNING; and once stopSimulation
\* was called there is no further tick, joint command or time advance.
\* ------------------------------------------------------------------------
C8_PhaseOrder ==
    /\ [][Phase' = Phase \/ <<Phase, Phase'>> \in PhaseSteps]_vars
    /\ [](pc \in TickSites => (joint_handles = NJ /\ tip_handle /\ started))
    /\ [](outcome.site \in {"resolve_joints", "resolve_tip"}
            => (~started /\ ~simRunning))
    /\ [][(pc' = "drain" /\ pc # "drain") => pc \in TickSites]_vars
    /\ [][stopInvoked => (/\ simTime' = simTime
                          /\ robotQ' = robotQ
                          /\ step_counter' = step_counter)]_vars

\* A run went through all four phases and returned.
C8_Witness ==
    pc = "done" /\ stopInvoked /\ ~simRunning /\ step_counter > 0 /\ drained > 0

\* ------------------------------------------------------------------------
\* C9.  A failed probe or solve is never retried: after the first failure
\* inside a tick there is no further probe, solve, joint command or tick.
\* ------------------------------------------------------------------------
C9_NoRetryAfterFailure ==
    [][firstError # NoError
         => (/\ pc' \notin TickSites
             /\ robotQ' = robotQ
             /\ J' = J
             /\ solverJ' = solverJ
             /\ dq_norms' = dq_norms
             /\ pertInTick' = pertInTick
             /\ step_counter' = step_counter)]_vars

\* A run ended after the position read of a probe failed.
C9_Witness ==
    pc = "done" /\ firstError = [kind |-> "Error", site |-> "pert_read"]

\* ------------------------------------------------------------------------
\* C10.  For any raw dq of length 7 and any maxDq > 0 the limiter's output
\* has every component's magnitude <= maxDq and Euclidean norm <= maxDq.
\* ------------------------------------------------------------------------
C10_LimiterBounds ==
    lim_out # LimNone
        => /\ \A j \in Joints : RLeq(RAbs(lim_out.dq[j]), Num(lim_cap))
           /\ RLeq(vec_norm(lim_out.dq), Num(lim_cap))

\* <<3, 1, 0, 0, 0, 0, -3>> under the cap 2 is clipped to norm 3 and rescaled
\* by 2/3: its second component becomes sqrt(4/9).
C10_Witness ==
    /\ lim_cap = 2
    /\ lim_dq = <<MaxRaw, 1, 0, 0, 0, 0, 0 - MaxRaw>>
    /\ lim_out # LimNone
    /\ lim_out.dq[2] = Root(1, 4, 9)
    /\ lim_out.dq_norm = Num(2)

\* ------------------------------------------------------------------------
\* C11.  The limiter applies its bounds in a fixed order: each component is
\* first clamped into [-maxDq, +maxDq]; the norm of the clamped vector is
\* taken; only if that norm exceeds maxDq are all seven components
\* multiplied by the one factor maxDq / norm, which gives the norm maxDq;
\* otherwise the output is exactly the clamped vector.
\* Stated without the limiter's own operators: c is the componentwise clamp
\* of the raw vector and n2 the square of its norm; out * n = maxDq * c is
\* checked on the signed squares.
\* ------------------------------------------------------------------------
C11_ClampThenRescale ==
    lim_out # LimNone
        => LET c == [j \in Joints |->
                        IF lim_dq[j] > lim_cap THEN lim_cap
                        ELSE IF lim_dq[j] < 0 - lim_cap THEN 0 - lim_cap
                        ELSE lim_dq[j]]
               n2 == c[1] * c[1] + c[2] * c[2] + c[3] * c[3] + c[4] * c[4]
                       + c[5] * c[5] + c[6] * c[6] + c[7] * c[7]
           IN  IF n2 > lim_cap * lim_cap
               THEN /\ \A j \in Joints :
                          /\ lim_out.dq[j].s = Sgn(c[j])
                          /\ lim_out.dq[j].n * n2
                                = lim_cap * lim_cap * c[j] * c[j] * lim_out.dq[j].d
                    /\ vec_norm(lim_out.dq) = Num(lim_cap)
                    /\ lim_out.dq_norm = Num(lim_cap)
               ELSE /\ lim_out.dq = [j \in Joints |-> Num(c[j])]
                    /\ lim_out.dq_norm = Root(Sgn(n2), n2, 1)

\* <<3, 1, 0, 0, 0, 0, 0>> under the cap 2 is clamped to <<2, 1, 0, ...>>, of
\* norm sqrt(5), and rescaled by 2 / sqrt(5): its first component becomes
\* sqrt(16/5).  Clamping the norm first would give sqrt(18/5).
C11_Witness ==
    /\ lim_cap = 2
    /\ lim_dq = <<MaxRaw, 1, 0, 0, 0, 0, 0>>
    /\ lim_out # LimNone
    /\ lim_out.dq[1] = Root(1, 16, 5)
    /\ lim_out.dq[2] = Root(1, 4, 5)

\* ------------------------------------------------------------------------
\* C12.  With J whose first three columns are the 3x3 identity and whose
\* other four columns are zero, dx = (0.002, 0, 0) and lambda = 0, the
\* damped-least-squares solve returns dq = (0.002, 0, 0, 0, 0, 0, 0).
\* ------------------------------------------------------------------------
C12_IdentityJacobian ==
    (/\ sol_pc = "done"
     /\ sol_J = <<Unit(1), Unit(2), Unit(3)>>
     /\ sol_dx = <<Q(2, 1, 3), Q(0, 1, 0), Q(0, 1, 0)>>
     /\ sol_lam = Q(0, 1, 0))
        => /\ ~sol_out.raised
           /\ sol_out.dq = <<Q(2, 1, 3), Q(0, 1, 0), Q(0, 1, 0), Q(0, 1, 0),
                             Q(0, 1, 0), Q(0, 1, 0), Q(0, 1, 0)>>

\* The solve of the scenario has returned.
C12_Witness ==
    /\ sol_pc = "done"
    /\ sol_J = <<Unit(1), Unit(2), Unit(3)>>
    /\ sol_dx = <<Q(2, 1, 3), Q(0, 1, 0), Q(0, 1, 0)>>
    /\ sol_lam = Q(0, 1, 0)
    /\ ~sol_out.raised
    /\ Len(sol_out.dq) = NJ

\* ------------------------------------------------------------------------
\* C13.  With an all-zero 3x7 Jacobian, the solve with lambda = 0 fails with
\* the singular-matrix error, and the solve with lambda = 0.1 succeeds and
\* returns the all-zero joint delta (whatever dx is).
\* ------------------------------------------------------------------------
C13_ZeroJacobian ==
    (sol_pc = "done" /\ sol_J = ZeroMat(3, NJ))
        => /\ sol_lam = Q(0, 1, 0) => sol_out.raised
           /\ sol_lam = Q(1, 1, 1)
                => /\ ~sol_out.raised
                   /\ sol_out.dq = [j \in Joints |-> Q(0, 1, 0)]

\* The solve of the all-zero Jacobian with lambda = 0.1 has returned.
C13_Witness ==
    /\ sol_pc = "done"
    /\ sol_J = ZeroMat(3, NJ)
    /\ sol_lam = Q(1, 1, 1)
    /\ sol_dx = <<Q(12, 1, 4), Q(16, 1, 4), Q(0, 1, 0)>>
    /\ ~sol_out.raised
    /\ Len(sol_out.dq) = NJ

\* ------------------------------------------------------------------------
\* C14.  The claim as made: for every 3x7 Jacobian J and every lambda > 0
\* the solve does not fail with the singular-matrix error.
\* ------------------------------------------------------------------------
C14_NeverSingularWhenDamped ==
    (sol_pc = "done" /\ QLt(Q(0, 1, 0), sol_lam)) => ~sol_out.raised

\* C14, amended.  For every 3x7 Jacobian J and every lambda with
\* lambda^6 >= 1e-10 the solve does not fail with the singular-matrix error
\* (det(J J^T + lambda^2 I) >= lambda^6); a smaller lambda > 0 does fail, for
\* the all-zero J.
C14_NeverSingularWhenDampedEnough ==
    LET lam2 == QMul(sol_lam, sol_lam)
        lam6 == QMul(QMul(lam2, lam2), lam2)
    IN  /\ (sol_pc = "done" /\ ~QLt(lam6, Q(1, 1, 10))) => ~sol_out.raised
        /\ (/\ sol_pc = "done"
            /\ sol_J = ZeroMat(3, NJ)
            /\ QLt(lam6, Q(1, 1, 10))) => sol_out.raised

\* The all-zero Jacobian with lambda = 0.03 (lambda^6 = 7.29e-10) is solved.
C14_Witness ==
    /\ sol_pc = "done"
    /\ sol_J = ZeroMat(3, NJ)
    /\ sol_lam = Q(3, 1, 2)
    /\ ~sol_out.raised

\* ------------------------------------------------------------------------
\* C15.  solve_3x3(A, b) fails with the singular-matrix error exactly when
\* |det(A)| < 1e-10, raising before any solution component is computed, and
\* returns a solution x (A x = b) for every A with |det(A)| >= 1e-10.
\* ------------------------------------------------------------------------
C15_SingularIffSmallDet ==
    LET small == QLt(QAbs(Sarrus(s3_A)), Q(1, 1, 10))
    IN  /\ s3_pc = "raised" => (small /\ s3_x = << >>)
        /\ s3_pc \in {"components", "returned"} => ~small
        /\ s3_pc = "components" => s3_x = << >>
        /\ s3_pc = "returned"
             => /\ Len(s3_x) = 3
                /\ \A i \in 1..3 : RowTimes(s3_A, i, s3_x) = s3_b[i]

\* A full matrix of determinant 1e-12 was refused.
C15_Witness ==
    /\ s3_pc = "raised"
    /\ s3_det = Q(1, 1, 12)
    /\ s3_A[1][2] = Q(2, 1, 4)

\* ------------------------------------------------------------------------
\* C16.  The statistics hold exactly one |dq| sample per control tick: when
\* the loop completes normally the number of samples equals the number of
\* ticks executed; the aggregates (average, minimum, maximum) are computed
\* only after the loop has exited and stopSimulation was called; and they
\* satisfy minimum <= average <= maximum over exactly those samples.
\* ------------------------------------------------------------------------
C16_OneSamplePerTick ==
    /\ Len(dq_norms) \in {step_counter - 1, step_counter}
    /\ (pc = "after_loop" \/ outcome.kind = "Ok") => Len(dq_norms) = step_counter
    /\ summary # SummaryNone
         => /\ pc = "done"
            /\ outcome.kind = "Ok"
            /\ stopInvoked
            /\ summary.count = step_counter
            /\ summary.count = Len(dq_norms)
            /\ \E i \in 1..Len(dq_norms) : summary.min = dq_norms[i]
            /\ \E i \in 1..Len(dq_norms) : summary.max = dq_norms[i]
            /\ \A i \in 1..Len(dq_norms) :
                  RLeq(summary.min, dq_norms[i]) /\ RLeq(dq_norms[i], summary.max)
            /\ RLeq(summary.min, summary.avg)
            /\ RLeq(summary.avg, summary.max)
            /\ RMul(summary.avg, Num(summary.count))
                 = Num(SumOf(dq_norms, Len(dq_norms)))

\* A run has completed and its samples are not all equal.
C16_Witness ==
    /\ pc = "done"
    /\ summary # SummaryNone
    /\ summary.count > 1
    /\ RLt(summary.min, summary.avg)
    /\ RLt(summary.avg, summary.max)

\* ------------------------------------------------------------------------
\* C17.  When every collaborator call returns and every requested time
\* advance increases simulated time by the same positive step, every run
\* that enters the control loop eventually has stopSimulation invoked, after
\* at most ceil(DURATION / step) ticks (DURATION is counted in steps).
\* ------------------------------------------------------------------------
C17_EventuallyStopped ==
    /\ (pc = "while") ~> (stopInvoked /\ pc = "done")
    /\ [](step_counter <= DURATION)
    /\ [](pc \in {"after_loop", "drain", "stop", "finish", "done"}
            => Elapsed >= DURATION)

\* The run has stopped the simulation after its 40 ticks and returned.
C17_Witness ==
    /\ pc = "done"
    /\ outcome.kind = "Ok"
    /\ stopInvoked
    /\ ~simRunning
    /\ step_counter = 40
    /\ drained = DRAIN_STEPS

\* ------------------------------------------------------------------------
\* C18.  During a Jacobian estimation from q, the columns are probed in
\* joint order; each probe commands q with only joint i increased by EPS,
\* reads the tip position, sets column i to (P_perturbed - P(q)) / EPS with
\* the position sampled at the start of the tick, then commands q on all 7
\* joints before the next column is perturbed.  Hence the configuration the
\* simulator holds never differs from q in more than one joint, and never by
\* more than EPS.
\* ------------------------------------------------------------------------
C18_ProbeOrder ==
    /\ [](pc \in EstimationSites
            => /\ col \in Joints
               /\ p = TipPosition(q)
               /\ \A j \in Joints :
                     \/ robotQ[j] = q[j]
                     \/ j = col /\ robotQ[j] = q[j] + EPS
               /\ \A j \in Joints : \A k \in 1..3 :
                     j > col => J[k][j] = 0)
    /\ [](pc = "pert_set" => robotQ = q)
    /\ [](pc \in {"pert_step", "pert_read"}
            => robotQ = [q EXCEPT ![col] = q[col] + EPS])
    /\ [](pc \in {"restore_set", "restore_step"}
            => \A j \in 1..col : \A k \in 1..3 :
                  J[k][j] * EPS
                    = TipPosition([q EXCEPT ![j] = q[j] + EPS])[k] - p[k])
    /\ [][(pc = "read_p" /\ pc' = "pert_set") => col' = 1]_vars
    /\ [][(pc \in EstimationSites /\ pc' \in EstimationSites)
            => \/ col' = col
               \/ pc = "restore_step" /\ pc' = "pert_set" /\ col' = col + 1]_vars
    /\ [][(pc = "restore_step" /\ pc' = "solve") => (col = NJ /\ robotQ = q)]_vars

\* The last column of the estimation of tick 5 is filled, from a q that is
\* not zero.
C18_Witness ==
    /\ pc = "restore_step"
    /\ col = NJ
    /\ step_counter = 5
    /\ q[1] # 0
    /\ J[1][1] = 2 * q[1] + 1
    /\ J[3][7] = 1
    /\ robotQ = q

\* ------------------------------------------------------------------------
\* C19.  The claim as made: the |dq| sample of a tick is recorded only after
\* that tick's q_new was commanded and time was advanced, so the number of
\* recorded samples never exceeds the number of ticks whose command and
\* time advance completed.
\* ------------------------------------------------------------------------
C19_RecordedAfterAdvance == Len(dq_norms) <= TicksCompleted

\* C19, amended.  Every RUNNING tick performs its steps in the order: sample
\* the robot state, compute dx, obtain the Jacobian, solve, bound, record
\* |dq|, integrate, command q_new, advance simulated time.  The sample of a
\* tick is recorded with the bound, before q_new is commanded: the number of
\* recorded samples is the number of ticks whose bound completed, which is
\* at most one more than the number of ticks whose command and time advance
\* completed.
C19_RecordedBeforeCommand ==
    /\ [][(pc \in TickSites /\ pc' \in TickSites /\ pc' # pc)
            => <<pc, pc'>> \in TickOrder]_vars
    /\ [][Len(dq_norms') # Len(dq_norms)
            => /\ pc = "solve"
               /\ pc' = "command"
               /\ Len(dq_norms') = Len(dq_norms) + 1
               /\ robotQ' = robotQ
               /\ simTime' = simTime]_vars
    /\ [](pc \in (MidTick \ {"command", "step"})
            => Len(dq_norms) = step_counter - 1)
    /\ [](pc \in {"command", "step"} => Len(dq_norms) = TicksCompleted + 1)
    /\ [](Len(dq_norms) <= TicksCompleted + 1)
    /\ [](Len(dq_norms) <= step_counter)

\* The third sample is recorded and the third command is still to be made.
C19_Witness ==
    /\ pc = "command"
    /\ step_counter = 3
    /\ Len(dq_norms) = 3
    /\ TicksCompleted = 2
    /\ robotQ = q

\* ------------------------------------------------------------------------
\* C20.  The configuration commanded at the end of a tick is
\* q_new[i] = q[i] + dq[i] for all 7 joints, with q the joint vector sampled
\* at the start of the tick and dq the limiter's output.  Hence no joint is
\* moved by more than MAX_DQ in a tick, the commanded joint vector always
\* has length 7, and every recorded |dq| sample is <= MAX_DQ.
\* ------------------------------------------------------------------------
C20_CommandIsQPlusDq ==
    /\ Len(q) = NJ /\ Len(dq) = NJ /\ Len(robotQ) = NJ
    /\ pc \in {"command", "step"}
         => LET lim == Limiter([j \in Joints |->
                                   Num(RawOfTick(plan, step_counter)[j])],
                               Num(MAX_DQ))
            IN  /\ \A j \in Joints : Num(dq[j]) = lim.dq[j]
                /\ dq_norms[step_counter]
                     = Root(1, dq[1] * dq[1] + dq[2] * dq[2] + dq[3] * dq[3]
                                 + dq[4] * dq[4] + dq[5] * dq[5] + dq[6] * dq[6]
                                 + dq[7] * dq[7], 1)
    /\ pc = "step" => \A j \in Joints : robotQ[j] = q[j] + dq[j]
    /\ (pc = "step" \/ firstError.site = "command")
         => \A j \in Joints : /\ robotQ[j] - q[j] <= MAX_DQ
                              /\ q[j] - robotQ[j] <= MAX_DQ
    /\ \A i \in 1..Len(dq_norms) : RLeq(dq_norms[i], Num(MAX_DQ))

\* Tick 2 of the plan <<RawC, RawB>> has commanded q + <<250, 250, 250, 250,
\* 0, 0, 0>>: the raw delta clipped to 400 each and rescaled from norm 800.
C20_Witness ==
    /\ pc = "step"
    /\ step_counter = 2
    /\ plan = <<RawC, RawB>>
    /\ dq = <<250, 250, 250, 250, 0, 0, 0>>
    /\ robotQ[1] = q[1] + 250
    /\ dq_norms[2] = Num(MAX_DQ)

\* ------------------------------------------------------------------------
\* C21.  For every 3x3 matrix A with |det(A)| >= 1e-10 and every vector b,
\* the vector x returned by solve_3x3(A, b) satisfies A x = b; equivalently
\* the numerators det_x, det_y, det_z it computes satisfy
\* A (det_x, det_y, det_z) = det(A) b, and x is those numerators over det.
\* ------------------------------------------------------------------------
C21_CramerSolves ==
    s3_pc = "returned"
      => LET num == <<DetX(s3_A, s3_b), DetY(s3_A, s3_b), DetZ(s3_A, s3_b)>>
         IN  /\ ~QLt(QAbs(s3_det), Q(1, 1, 10))
             /\ s3_det = Sarrus(s3_A)
             /\ \A i \in 1..3 :
                  /\ RowTimes(s3_A, i, num) = QMul(s3_det, s3_b[i])
                  /\ QMul(s3_x[i], s3_det) = num[i]
                  /\ RowTimes(s3_A, i, s3_x) = s3_b[i]

\* The full matrix of determinant 18 was solved for b = (1, 2, 3): the
\* solution (1/3, 1/3, 2/3) is not a vector of whole numbers.
C21_Witness ==
    /\ s3_pc = "returned"
    /\ s3_det = QInt(18)
    /\ s3_b = <<QInt(1), QInt(2), QInt(3)>>
    /\ s3_x = <<Q(1, 3, 0), Q(1, 3, 0), Q(2, 3, 0)>>

\* ------------------------------------------------------------------------
\* C22.  The solver is never run on a Jacobian whose estimation did not
\* complete.  Whenever the solve of a tick executes, the Jacobian it uses is
\* the one of the last completed estimation, all 7 columns of which were
\* probed at one and the same configuration; a Jacobian that differs from
\* it exists only while an estimation is under way or after a probe of it
\* failed, and then no solve follows.
\* ------------------------------------------------------------------------
C22_SolveUsesCompleteEstimate ==
    /\ [](pc = "solve" => (J # JNone /\ J = lastEst))
    /\ []((J # JNone /\ J # lastEst)
            => \/ pc \in EstimationSites
               \/ firstError.site \in EstimationSites /\ pc \notin TickSites)
    /\ [][(pc = "solve" /\ pc' = "command")
            => (solverJ' = lastEst /\ lastEst # JNone)]_vars
    /\ [][lastEst' # lastEst
            => /\ pc = "restore_step" /\ pc' = "solve"
               /\ lastEst' = NumericalJacobian(q)]_vars
    /\ [][(firstError.site \in EstimationSites /\ J # lastEst)
            => (J' = J /\ solverJ' = solverJ /\ pc' # "solve")]_vars

\* The run has ended after the position read of the third probe of tick 5
\* failed: columns 1 and 2 of the Jacobian are new, the others are zero, and
\* the last solve, of tick 4, used the estimation completed on tick 1.
C22_Witness ==
    /\ pc = "done"
    /\ firstError.site = "pert_read"
    /\ step_counter = 5
    /\ col = 3
    /\ J[1][2] = 1
    /\ J[3][7] = 0
    /\ lastEst # JNone
    /\ J # lastEst
    /\ solverJ = lastEst
    /\ Len(dq_norms) = 4

\* ------------------------------------------------------------------------
\* C23.  A failure (an Exception) of stopSimulation or of a residual time
\* advance during cleanup is swallowed and never changes the outcome of the
\* run: the exception in flight is the same after the finally block as
\* before it; after a loop that completed normally main() returns and
\* reports its statistics, and after a step failure the caller receives the
\* original error, whether or not the cleanup calls failed.
\* ------------------------------------------------------------------------
C23_CleanupFailureSwallowed ==
    /\ []((pc \in {"drain", "stop", "finish"} /\ ~InterruptedInCleanup)
            => pending = firstError)
    /\ []((pc = "done" /\ firstError.site \in TickSites /\ ~InterruptedInCleanup)
            => (outcome = firstError /\ summary = SummaryNone /\ stopInvoked))
    /\ []((pc = "done" /\ stopInvoked /\ firstError = NoError
               /\ ~InterruptedInCleanup)
            => /\ outcome.kind = "Ok"
               /\ summary.count = Len(dq_norms)
               /\ summary.count > 0)
    /\ [][(pc \in {"drain", "stop"} /\ pending' # pending)
            => pending'.kind = "Interrupt"]_vars

\* The time advance of tick 2 failed; the second residual step failed, then
\* stopSimulation failed and left the simulation running; the caller has
\* received the error of the time advance.
C23_Witness ==
    /\ pc = "done"
    /\ firstError = [kind |-> "Error", site |-> "step"]
    /\ step_counter = 2
    /\ drained = 2
    /\ stopInvoked
    /\ simRunning
    /\ outcome = firstError

=============================================================================
